---- MODULE Spec2Model ----
(***************************************************************************)
(* EDI gateway (main.go): the inbound and outbound HTTP handlers, the      *)
(* PostgreSQL table they share, the Kafka topic the inbound handler writes *)
(* to and the two Prometheus counters.  Every request is served by its own *)
(* goroutine; a handler's steps are its calls on the shared collaborators: *)
(* the counter, the table, the topic.  Decoding the body and assigning ID,  *)
(* Status and Date touch only the goroutine's own variables and are taken   *)
(* together with the db.Create that follows them.                           *)
(***************************************************************************)
EXTENDS Integers, Sequences, FiniteSets, TLC

\* ------------------------------------------------------------------ bounds
NumReq == 2      \* inbound requests (goroutines running inboundHandler)
NumOut == 1      \* outbound requests (goroutines running outboundHandler)

Reqs == 1..NumReq
Outs == 1..NumOut

\* ------------------------------------------------------- program constants
StatusOK == 200
StatusBadRequest == 400
StatusInternalServerError == 500
\* Ticks of the model clock per second: Format's layout stops at seconds.
TicksPerSecond == 2

\* -------------------------------------------------------------- data model
\* Instants are ticks counted from the server's start.  The zero time.Time
\* and the instant a client may put in "date" both lie before it.
ZeroTime == 0 - 2
ClientTime == 0 - 1

\* uuid.New().String(): a non-empty string.  Identifiers are only ever
\* compared for equality, so the one that is in no row of a table of n rows
\* is named by n + 1; uuid.New() may also return one that is in the table.
UuidString(i) == "uuid-" \o ToString(i)
UUIDs(table) == {UuidString(i) : i \in 1..(Len(table) + 1)}

\* type Transaction struct: the decoder starts from the zero value.
ZeroTransaction ==
    [ID |-> "", Date |-> ZeroTime, ShipTo |-> "", ItemList |-> "", Status |-> ""]

\* JSON values of a request body: null, a string, a number, an object given
\* as its members <<key, value>> in the order they are written.
JsonNull == [k |-> "null", v |-> "", o |-> <<>>]
JsonStr(s) == [k |-> "str", v |-> s, o |-> <<>>]
JsonNum(s) == [k |-> "num", v |-> s, o |-> <<>>]
JsonObj(members) == [k |-> "obj", v |-> "", o |-> members]

\* A request body: text that is not JSON, or one JSON value.
NotJson == [syntax |-> FALSE, val |-> JsonNull]
JsonBody(val) == [syntax |-> TRUE, val |-> val]
NoBody == [syntax |-> FALSE, val |-> JsonNum("consumed")]

\* time.Time's UnmarshalJSON on a JSON string: strict RFC 3339.
ParseTime(s) ==
    IF s = "2020-01-01T00:00:00Z"
    THEN [err |-> FALSE, t |-> ClientTime]
    ELSE [err |-> TRUE, t |-> ZeroTime]

\* The ItemList tag written as item_list.
FieldOf_ItemListTag(key) ==
    CASE key = "id" -> "ID"
      [] key = "date" -> "Date"
      [] key = "ship_to" -> "ShipTo"
      [] key = "item_list" -> "ItemList"
      [] key = "status" -> "Status"
      [] OTHER -> ""

\* The struct field a JSON key selects through the json tags (unknown keys
\* are skipped by the decoder).
FieldOf(key) ==
    CASE key = "id" -> "ID"
      [] key = "date" -> "Date"
      [] key = "ship_to" -> "ShipTo"
      [] key = "items" -> "ItemList"
      [] key = "status" -> "Status"
      [] OTHER -> ""

\* One object member decoded into the struct.  stop: the decoder returns at
\* once (an Unmarshaler's error); err without stop: a type mismatch, which is
\* remembered while the rest of the object is still decoded.
DecodeMember(t, key, val) ==
    LET f == FieldOf(key) IN
    IF f = "" THEN [err |-> FALSE, stop |-> FALSE, t |-> t]
    ELSE IF f = "Date" THEN
        IF val.k = "null" THEN [err |-> FALSE, stop |-> FALSE, t |-> t]
        ELSE IF val.k = "str" THEN
            LET p == ParseTime(val.v) IN
            IF p.err THEN [err |-> TRUE, stop |-> TRUE, t |-> t]
            ELSE [err |-> FALSE, stop |-> FALSE, t |-> [t EXCEPT !.Date = p.t]]
        ELSE [err |-> TRUE, stop |-> TRUE, t |-> t]
    ELSE
        IF val.k = "null" THEN [err |-> FALSE, stop |-> FALSE, t |-> t]
        ELSE IF val.k = "str" THEN
            [err |-> FALSE, stop |-> FALSE, t |-> [t EXCEPT ![f] = val.v]]
        ELSE [err |-> TRUE, stop |-> FALSE, t |-> t]

RECURSIVE DecodeObject(_, _, _)
DecodeObject(members, t, err) ==
    IF members = <<>> THEN [err |-> err, t |-> t]
    ELSE LET m == DecodeMember(t, Head(members)[1], Head(members)[2]) IN
         IF m.stop THEN [err |-> TRUE, t |-> m.t]
         ELSE DecodeObject(Tail(members), m.t, err \/ m.err)

\* json.NewDecoder(r.Body).Decode(&transaction)
Decode(b) ==
    IF ~b.syntax THEN [err |-> TRUE, t |-> ZeroTransaction]
    ELSE IF b.val.k = "null" THEN [err |-> FALSE, t |-> ZeroTransaction]
    ELSE IF b.val.k = "obj" THEN DecodeObject(b.val.o, ZeroTransaction, FALSE)
    ELSE [err |-> TRUE, t |-> ZeroTransaction]

\* The request bodies clients send: text that is not JSON, the two meaningful
\* fields, the items under the key item_list, server-owned fields supplied
\* with well-formed values, a date that is no RFC 3339 instant, a numeric id.
Acme == <<"ship_to", JsonStr("Acme")>>
ItemsA1 == <<"items", JsonStr("[{\"sku\":\"A1\"}]")>>
Bodies ==
    { NotJson,
      JsonBody(JsonObj(<<Acme, ItemsA1>>)),
      JsonBody(JsonObj(<<Acme, <<"item_list", JsonStr("[{\"sku\":\"A1\"}]")>> >>)),
      JsonBody(JsonObj(<<Acme, ItemsA1, <<"id", JsonStr("client-id")>>,
                         <<"date", JsonStr("2020-01-01T00:00:00Z")>>,
                         <<"status", JsonStr("Pending")>> >>)),
      JsonBody(JsonObj(<<Acme, ItemsA1, <<"date", JsonStr("yesterday")>> >>)),
      JsonBody(JsonObj(<<Acme, ItemsA1, <<"id", JsonNum("7")>> >>)) }

\* The status set only when the client sent none.
Assign_KeepStatus(t, id, now) ==
    [t EXCEPT !.ID = id, !.Date = now,
              !.Status = IF t.Status = "" THEN "Processed" ELSE t.Status]

\* Lines 77-80: the server-assigned fields.
Assign(t, id, now) == [t EXCEPT !.ID = id, !.Status = "Processed", !.Date = now]

\* t.Date.Format("2006-01-02 15:04:05"): the instant cut to whole seconds.
Format(d) == "sec-" \o ToString(d \div TicksPerSecond)
\* The full-precision rendering used by %+v and by json.Marshal.
TimeString(d) == "tick-" \o ToString(d)

\* json.Marshal(transaction): the event payload, keyed by the json tags.
Marshal(t) ==
    JsonObj(<< <<"id", JsonStr(t.ID)>>, <<"date", JsonStr(TimeString(t.Date))>>,
               <<"ship_to", JsonStr(t.ShipTo)>>, <<"items", JsonStr(t.ItemList)>>,
               <<"status", JsonStr(t.Status)>> >>)

\* http.Error(w, msg, code)
HttpError(msg, code) == [code |-> code, text |-> << <<msg, "\n">> >>]
NoResponse == [code |-> 0, text |-> <<>>]

\* fmt.Fprintf(w, "Inbound transaction processed: %+v\n", transaction)
Confirmation(t) ==
    [code |-> StatusOK,
     text |-> << <<"Inbound transaction processed: ", "{ID:", t.ID,
                   " Date:", TimeString(t.Date), " ShipTo:", t.ShipTo,
                   " ItemList:", t.ItemList, " Status:", t.Status, "}", "\n">> >>]

\* Lines 111-113: Sprintf's line, then Fprintln's own newline.
EdiLine(t) ==
    <<"EDI 856: Shipment ", t.ID, " to ", t.ShipTo, " on ", Format(t.Date),
      " with items: ", t.ItemList, "\n", "\n">>

\* The loop started one row late.
RenderAll_SkipFirst(transactions) ==
    [code |-> StatusOK,
     text |-> [i \in 1..(Len(transactions) - 1) |-> EdiLine(transactions[i + 1])]]

\* Lines 110-114: one write per fetched row, in the order fetched.
RenderAll(transactions) ==
    [code |-> StatusOK,
     text |-> [i \in 1..Len(transactions) |-> EdiLine(transactions[i])]]

\* The primary keys of the rows of the table.
Keys(table) == {table[i].ID : i \in 1..Len(table)}

\* A table without the primary key: every INSERT is accepted.
CanInsert_NoPrimaryKey(table, t) == TRUE

\* db.Create(&transaction): an INSERT; the primary key on ID rejects a row
\* whose key is already in the table.
CanInsert(table, t) == t.ID \notin Keys(table)
Insert(table, t) == Append(table, t)

\* ------------------------------------------------------------------- state
VARIABLES
    inboundCounter,   \* inbound_requests_total
    outboundCounter,  \* outbound_requests_total
    db,               \* rows of the transactions table, in insertion order
    kafka,            \* messages written to edi_topic, in write order
    clock,            \* the last tick time.Now() returned
    pc,               \* where each inbound request is in inboundHandler
    body,             \* r.Body of each inbound request
    transaction,      \* the handler's local variable
    resp,             \* what the inbound request's ResponseWriter received
    opc,              \* where each outbound request is in outboundHandler
    oresp             \* what the outbound request's ResponseWriter received

vars == <<inboundCounter, outboundCounter, db, kafka, clock, pc, body,
          transaction, resp, opc, oresp>>

Init ==
    /\ inboundCounter = 0
    /\ outboundCounter = 0
    /\ db = <<>>
    /\ kafka = <<>>
    /\ clock = 0
    /\ pc = [r \in Reqs |-> "idle"]
    /\ body = [r \in Reqs |-> NoBody]
    /\ transaction = [r \in Reqs |-> ZeroTransaction]
    /\ resp = [r \in Reqs |-> NoResponse]
    /\ opc = [e \in Outs |-> "idle"]
    /\ oresp = [e \in Outs |-> NoResponse]

\* ------------------------------------------------------- inboundHandler
\* The counter incremented only where the handler succeeds: not at entry.
InboundStart_NoInc(r, b) ==
    /\ pc[r] = "idle"
    /\ body' = [body EXCEPT ![r] = b]
    /\ pc' = [pc EXCEPT ![r] = "decode"]
    /\ UNCHANGED <<inboundCounter, outboundCounter, db, kafka, clock, transaction,
                   resp, opc, oresp>>

\* Line 69: the router hands a POST /inbound to the handler, whose first
\* statement counts it.
InboundStart(r, b) ==
    /\ pc[r] = "idle"
    /\ inboundCounter' = inboundCounter + 1
    /\ body' = [body EXCEPT ![r] = b]
    /\ pc' = [pc EXCEPT ![r] = "decode"]
    /\ UNCHANGED <<outboundCounter, db, kafka, clock, transaction, resp, opc, oresp>>

\* The return after http.Error left out: the zero transaction is saved.
InboundReject_NoReturn(r) ==
    /\ pc[r] = "decode"
    /\ Decode(body[r]).err
    /\ resp' = [resp EXCEPT ![r] = HttpError("Invalid JSON", StatusBadRequest)]
    /\ \E id \in UUIDs(db) :
         LET t == Assign(Decode(body[r]).t, id, clock + 1) IN
         /\ t.ID \notin {db[i].ID : i \in 1..Len(db)}
         /\ db' = Append(db, t)
         /\ transaction' = [transaction EXCEPT ![r] = t]
    /\ clock' = clock + 1
    /\ pc' = [pc EXCEPT ![r] = "publish"]
    /\ UNCHANGED <<inboundCounter, outboundCounter, kafka, body, opc, oresp>>

\* Lines 71-75: the body does not decode; 400 and return.
InboundReject(r) ==
    /\ pc[r] = "decode"
    /\ Decode(body[r]).err
    /\ resp' = [resp EXCEPT ![r] = HttpError("Invalid JSON", StatusBadRequest)]
    /\ body' = [body EXCEPT ![r] = NoBody]
    /\ pc' = [pc EXCEPT ![r] = "done"]
    /\ UNCHANGED <<inboundCounter, outboundCounter, db, kafka, clock, transaction,
                   opc, oresp>>

\* Lines 71-87, db.Create succeeded: the decoded transaction gets its ID,
\* Status and Date and is inserted.
InboundCreateOk(r, id) ==
    /\ pc[r] = "decode"
    /\ ~Decode(body[r]).err
    /\ LET t == Assign(Decode(body[r]).t, id, clock + 1) IN
       /\ CanInsert(db, t)
       /\ db' = Insert(db, t)
       /\ transaction' = [transaction EXCEPT ![r] = t]
    /\ clock' = clock + 1
    /\ pc' = [pc EXCEPT ![r] = "publish"]
    /\ UNCHANGED <<inboundCounter, outboundCounter, kafka, body, resp, opc, oresp>>

\* The return after the storage error left out: the event is published.
InboundCreateFail_NoReturn(r) ==
    /\ pc[r] = "decode"
    /\ ~Decode(body[r]).err
    /\ clock' = clock + 1
    /\ \E id \in UUIDs(db) :
         kafka' = Append(kafka, Marshal(Assign(Decode(body[r]).t, id, clock + 1)))
    /\ resp' = [resp EXCEPT ![r] =
                  HttpError("Failed to save transaction", StatusInternalServerError)]
    /\ body' = [body EXCEPT ![r] = NoBody]
    /\ pc' = [pc EXCEPT ![r] = "done"]
    /\ UNCHANGED <<inboundCounter, outboundCounter, db, transaction, opc, oresp>>

\* Lines 71-87, db.Create returned an error (the server's, or a key clash):
\* 500 and return.
InboundCreateFail(r) ==
    /\ pc[r] = "decode"
    /\ ~Decode(body[r]).err
    /\ clock' = clock + 1
    /\ resp' = [resp EXCEPT ![r] =
                  HttpError("Failed to save transaction", StatusInternalServerError)]
    /\ body' = [body EXCEPT ![r] = NoBody]
    /\ pc' = [pc EXCEPT ![r] = "done"]
    /\ UNCHANGED <<inboundCounter, outboundCounter, db, kafka, transaction, opc, oresp>>

\* Publishing serialized in storage order: a request waits while a row
\* stored before its own is still unpublished by a request in flight.
InboundPublishOk_InStorageOrder(r) ==
    /\ pc[r] = "publish"
    /\ \A q \in Reqs \ {r} :
         pc[q] = "publish" =>
           \E i, j \in 1..Len(db) :
             /\ db[i] = transaction[r]
             /\ db[j] = transaction[q]
             /\ i < j
    /\ kafka' = Append(kafka, Marshal(transaction[r]))
    /\ resp' = [resp EXCEPT ![r] = Confirmation(transaction[r])]
    /\ transaction' = [transaction EXCEPT ![r] = ZeroTransaction]
    /\ body' = [body EXCEPT ![r] = NoBody]
    /\ pc' = [pc EXCEPT ![r] = "done"]
    /\ UNCHANGED <<inboundCounter, outboundCounter, db, clock, opc, oresp>>

\* Lines 90-97, WriteMessages succeeded: the event is on the topic and the
\* confirmation is written.
InboundPublishOk(r) ==
    /\ pc[r] = "publish"
    /\ kafka' = Append(kafka, Marshal(transaction[r]))
    /\ resp' = [resp EXCEPT ![r] = Confirmation(transaction[r])]
    /\ transaction' = [transaction EXCEPT ![r] = ZeroTransaction]
    /\ body' = [body EXCEPT ![r] = NoBody]
    /\ pc' = [pc EXCEPT ![r] = "done"]
    /\ UNCHANGED <<inboundCounter, outboundCounter, db, clock, opc, oresp>>

\* A compensating delete: the row is taken out again when the publish fails.
InboundPublishFail_Rollback(r) ==
    /\ pc[r] = "publish"
    /\ db' = SelectSeq(db, LAMBDA row : row.ID # transaction[r].ID)
    /\ resp' = [resp EXCEPT ![r] =
                  HttpError("Failed to publish to Kafka", StatusInternalServerError)]
    /\ transaction' = [transaction EXCEPT ![r] = ZeroTransaction]
    /\ body' = [body EXCEPT ![r] = NoBody]
    /\ pc' = [pc EXCEPT ![r] = "done"]
    /\ UNCHANGED <<inboundCounter, outboundCounter, kafka, clock, opc, oresp>>

\* Lines 90-95, WriteMessages returned an error: 500 and return.
InboundPublishFail(r) ==
    /\ pc[r] = "publish"
    /\ resp' = [resp EXCEPT ![r] =
                  HttpError("Failed to publish to Kafka", StatusInternalServerError)]
    /\ transaction' = [transaction EXCEPT ![r] = ZeroTransaction]
    /\ body' = [body EXCEPT ![r] = NoBody]
    /\ pc' = [pc EXCEPT ![r] = "done"]
    /\ UNCHANGED <<inboundCounter, outboundCounter, db, kafka, clock, opc, oresp>>

\* ------------------------------------------------------ outboundHandler
\* Line 102: the handler's first statement counts the GET /outbound.
OutboundStart(e) ==
    /\ opc[e] = "idle"
    /\ outboundCounter' = outboundCounter + 1
    /\ opc' = [opc EXCEPT ![e] = "find"]
    /\ UNCHANGED <<inboundCounter, db, kafka, clock, pc, body, transaction, resp, oresp>>

\* An egress that marks what it sent: every row's Status is updated.
OutboundFindOk_MarkSent(e) ==
    /\ opc[e] = "find"
    /\ oresp' = [oresp EXCEPT ![e] = RenderAll(db)]
    /\ db' = [i \in 1..Len(db) |-> [db[i] EXCEPT !.Status = "Sent"]]
    /\ opc' = [opc EXCEPT ![e] = "done"]
    /\ UNCHANGED <<inboundCounter, outboundCounter, kafka, clock, pc, body,
                   transaction, resp>>

\* Lines 104-114, db.Find succeeded: every row fetched is rendered.
OutboundFindOk(e) ==
    /\ opc[e] = "find"
    /\ oresp' = [oresp EXCEPT ![e] = RenderAll(db)]
    /\ opc' = [opc EXCEPT ![e] = "done"]
    /\ UNCHANGED <<inboundCounter, outboundCounter, db, kafka, clock, pc, body,
                   transaction, resp>>

\* Lines 104-108, db.Find returned an error: 500 and return.
OutboundFindFail(e) ==
    /\ opc[e] = "find"
    /\ oresp' = [oresp EXCEPT ![e] =
                   HttpError("Failed to fetch transactions", StatusInternalServerError)]
    /\ opc' = [opc EXCEPT ![e] = "done"]
    /\ UNCHANGED <<inboundCounter, outboundCounter, db, kafka, clock, pc, body,
                   transaction, resp>>

Next ==
    \/ \E r \in Reqs, b \in Bodies : InboundStart(r, b)
    \/ \E r \in Reqs : InboundReject(r)
    \/ \E r \in Reqs, id \in UUIDs(db) : InboundCreateOk(r, id)
    \/ \E r \in Reqs : InboundCreateFail(r)
    \/ \E r \in Reqs : InboundPublishOk(r)
    \/ \E r \in Reqs : InboundPublishFail(r)
    \/ \E e \in Outs : OutboundStart(e)
    \/ \E e \in Outs : OutboundFindOk(e)
    \/ \E e \in Outs : OutboundFindFail(e)

Spec == Init /\ [][Next]_vars

\* ---------------------------------------------------------------- properties
Range(seq) == {seq[i] : i \in 1..Len(seq)}
Rows == Range(db)
Events == Range(kafka)

SaveError == HttpError("Failed to save transaction", StatusInternalServerError)
PublishError == HttpError("Failed to publish to Kafka", StatusInternalServerError)
DecodeError == HttpError("Invalid JSON", StatusBadRequest)

\* The members of a body that is a JSON object.
Members(b) == IF b.syntax /\ b.val.k = "obj" THEN b.val.o ELSE <<>>
HasKey(b, key) == \E i \in 1..Len(Members(b)) : Members(b)[i][1] = key
\* The string a body gives under a key (its last member of that key).
Supplied(b, key) ==
    LET ms == Members(b)
        at == {i \in 1..Len(ms) : ms[i][1] = key}
    IN IF at = {} THEN ""
       ELSE ms[CHOOSE i \in at : \A j \in at : j <= i][2].v

\* C1: every published event is the serialization of a row that is in the
\* table, and only requests answered 200 have published: a request whose
\* storage write failed (500) made no publish call.
C1_PublishOnlyAfterStore ==
    /\ \A ev \in Events : \E row \in Rows : ev = Marshal(row) /\ ev.o[1][2].v = row.ID
    /\ Len(kafka) = Cardinality({r \in Reqs : resp[r].code = StatusOK})
    /\ \A r \in Reqs : resp[r] = SaveError => pc[r] = "done"

\* A request answered "Failed to save transaction" next to a published event.
C1_Witness ==
    /\ \E r \in Reqs : resp[r] = SaveError
    /\ Len(kafka) >= 1

\* Rows that are stored, not published, and whose request has returned.
Orphans ==
    {row \in Rows :
        /\ Marshal(row) \notin Events
        /\ \A r \in Reqs : pc[r] = "publish" => transaction[r] # row}

\* C2: when a request's publish fails it answers 500 and its row stays in
\* the table unpublished; from then on the row is never removed and never
\* published, and every egress read that succeeds returns its line.
C2_DurableButUnpublished ==
    [][ /\ \A r \in Reqs :
             (pc[r] = "publish" /\ pc'[r] = "done" /\ kafka' = kafka) =>
                /\ resp'[r].code = StatusInternalServerError
                /\ transaction[r] \in Orphans'
        /\ \A row \in Orphans : row \in Orphans'
        /\ \A e \in Outs :
             (opc[e] = "find" /\ oresp'[e].code = StatusOK) =>
                \A row \in Orphans : EdiLine(row) \in Range(oresp'[e].text)
      ]_vars

\* An egress answered 200 that lists a row whose publish failed.
C2_Witness ==
    \E e \in Outs, r \in Reqs, row \in Orphans :
        /\ resp[r] = PublishError
        /\ oresp[e].code = StatusOK
        /\ EdiLine(row) \in Range(oresp[e].text)

\* C3: a request whose body does not decode is answered 400 and returns:
\* the table and the topic are the same before and after, and a request that
\* has returned does nothing more.
C3_DecodeFailureAborts ==
    [][ \A r \in Reqs :
          /\ (pc[r] = "decode" /\ Decode(body[r]).err /\ pc'[r] # "decode") =>
                /\ resp'[r] = DecodeError
                /\ pc'[r] = "done"
                /\ db' = db
                /\ kafka' = kafka
          /\ pc[r] = "done" => pc'[r] = "done" /\ resp'[r] = resp[r]
      ]_vars

\* A request answered 400 while the table holds a row.
C3_Witness ==
    /\ \E r \in Reqs : resp[r] = DecodeError /\ pc[r] = "done"
    /\ Len(db) >= 1

\* The id a 200 confirmation reports.
ConfirmedId(response) == response.text[1][3]

\* C4: every stored row has a non-empty id, no two rows share an id, and any
\* two requests answered 200 reported different ids, both in the table.
C4_UniqueNonEmptyIds ==
    /\ \A i \in 1..Len(db) : db[i].ID # ""
    /\ \A i, j \in 1..Len(db) : i # j => db[i].ID # db[j].ID
    /\ \A r, q \in Reqs :
         (r # q /\ resp[r].code = StatusOK /\ resp[q].code = StatusOK) =>
            /\ ConfirmedId(resp[r]) # ConfirmedId(resp[q])
            /\ ConfirmedId(resp[r]) \in Keys(db)
            /\ ConfirmedId(resp[q]) \in Keys(db)

\* Two requests answered 200 whose rows have the same ship_to and items.
C4_Witness ==
    /\ \A r \in 1..2 : resp[r].code = StatusOK
    /\ \E i, j \in 1..Len(db) :
         /\ i # j
         /\ db[i].ShipTo = db[j].ShipTo
         /\ db[i].ItemList = db[j].ItemList
         /\ db[i].ItemList # ""

\* The fields the server owns, and a body without them.
ServerOwned == {"id", "date", "status"}
Strip(b) ==
    IF b.syntax /\ b.val.k = "obj"
    THEN JsonBody(JsonObj(SelectSeq(b.val.o, LAMBDA m : m[1] \notin ServerOwned)))
    ELSE b
\* Every server-owned member has a value its field accepts: a string or
\* null for id and status, an RFC 3339 string or null for date.
WellFormedOwned(b) ==
    \A i \in 1..Len(Members(b)) :
        LET key == Members(b)[i][1]
            val == Members(b)[i][2]
        IN /\ key \in {"id", "status"} => val.k \in {"str", "null"}
           /\ key = "date" =>
                \/ val.k = "null"
                \/ val.k = "str" /\ ~ParseTime(val.v).err

\* What the request's first step after the count does, set against the same
\* body without id, date and status: the same 400-or-not, the same ship_to
\* and items, and server-assigned id, date and status in the stored row.
SameAsStripped(r) ==
    LET d0 == Decode(Strip(body[r])) IN
    /\ (resp'[r] = DecodeError) <=> d0.err
    /\ pc'[r] = "publish" =>
          /\ db' = Append(db, transaction'[r])
          /\ transaction'[r].ID \in UUIDs(db)
          /\ transaction'[r].Date = clock'
          /\ transaction'[r].Date # ClientTime
          /\ transaction'[r].Status = "Processed"
          /\ transaction'[r].ShipTo = d0.t.ShipTo
          /\ transaction'[r].ItemList = d0.t.ItemList

\* C5 as stated: whatever id, date and status a body carries, the request
\* fares as the same body without them.
C5_OwnedFieldsIgnored ==
    [][ \A r \in Reqs :
          (pc[r] = "decode" /\ pc'[r] # "decode") => SameAsStripped(r) ]_vars

\* C5 amended: id, date and status of a value their fields accept are
\* overwritten and change nothing else; a value of another type, or a date
\* that is no RFC 3339 instant, makes the request answer 400.
C5_WellFormedOwnedFieldsIgnored ==
    [][ \A r \in Reqs :
          (pc[r] = "decode" /\ pc'[r] # "decode") =>
             /\ WellFormedOwned(body[r]) => SameAsStripped(r)
             /\ ~WellFormedOwned(body[r]) => resp'[r] = DecodeError /\ db' = db
      ]_vars

\* A stored row whose request carried an id, a date and a status.
C5_Witness ==
    \E r \in Reqs :
        /\ pc[r] = "publish"
        /\ \A key \in ServerOwned : HasKey(body[r], key)
        /\ transaction[r] \in Rows
        /\ transaction[r].ID # Supplied(body[r], "id")
        /\ transaction[r].Status # Supplied(body[r], "status")

\* A row is stored with the ship_to and the items string the body gave
\* under `key`, rows never change, and every egress read that succeeds
\* writes, for every row, a line holding its id, ship_to and items string.
RoundTrip(key) ==
    /\ \A r \in Reqs :
         (pc[r] = "decode" /\ pc'[r] = "publish" /\ HasKey(body[r], key)) =>
            /\ db' = Append(db, transaction'[r])
            /\ transaction'[r].ShipTo = Supplied(body[r], "ship_to")
            /\ transaction'[r].ItemList = Supplied(body[r], key)
    /\ \A row \in Rows : row \in Rows'
    /\ \A e \in Outs :
         (opc[e] = "find" /\ oresp'[e].code = StatusOK) =>
            \A row \in Rows : \E line \in Range(oresp'[e].text) :
                {row.ID, row.ShipTo, row.ItemList} \subseteq Range(line)

C7_EgressFollowsRead ==
    [][ \A e \in Outs :
          (opc[e] = "find" /\ opc'[e] = "done") =>
             \/ /\ oresp'[e].code = StatusInternalServerError
                /\ \A line \in Range(oresp'[e].text) : line[1] # "EDI 856: Shipment "
             \/ /\ oresp'[e].code = StatusOK
                /\ Len(oresp'[e].text) = Len(db)
                /\ \A i \in 1..Len(db) :
                     LET line == oresp'[e].text[i] IN
                     /\ line[1] = "EDI 856: Shipment "
                     /\ line[2] = db[i].ID
                     /\ line[4] = db[i].ShipTo
                     /\ line[6] = Format(db[i].Date)
                     /\ line[8] = db[i].ItemList
      ]_vars

\* An egress answered 200 with two lines.
C7_Witness == \E e \in Outs : oresp[e].code = StatusOK /\ Len(oresp[e].text) = 2

\* C8: the inbound counter is the number of ingress requests started, the
\* outbound counter the number of egress requests started, whatever became
\* of them; the inbound counter is never below the number of stored rows.
C8_CountersCountAttempts ==
    /\ inboundCounter = Cardinality({r \in Reqs : pc[r] # "idle"})
    /\ outboundCounter = Cardinality({e \in Outs : opc[e] # "idle"})
    /\ inboundCounter >= Len(db)

\* Two requests counted, one answered 400 and one 500, and a failed egress.
C8_Witness ==
    /\ inboundCounter = 2
    /\ \E r, q \in Reqs : resp[r] = DecodeError /\ resp[q] = SaveError
    /\ \E e \in Outs : oresp[e].code = StatusInternalServerError
    /\ outboundCounter >= 1
    /\ Len(db) = 0

\* C9: every step keeps the rows of the table as they are and adds at most
\* one at the end; a step of an egress request changes neither the table nor
\* the topic; only an ingress request's save adds a row.
C9_AppendOnly ==
    [][ /\ Len(db') \in {Len(db), Len(db) + 1}
        /\ \A i \in 1..Len(db) : db'[i] = db[i]
        /\ opc' # opc => db' = db /\ kafka' = kafka
        /\ db' # db => \E r \in Reqs : pc[r] = "decode" /\ pc'[r] = "publish"
      ]_vars

\* A row stored after an egress that listed the one row before it.
C9_Witness ==
    /\ Len(db) = 2
    /\ \E e \in Outs : oresp[e].code = StatusOK /\ Len(oresp[e].text) = 1
    /\ Len(kafka) >= 1

\* C10: no request waits for another: a request that has decoded its body
\* can store under any free id and a request that has stored can publish,
\* whatever the other requests are doing.
C10_NoSerialization ==
    \A r \in Reqs :
        /\ (pc[r] = "decode" /\ ~Decode(body[r]).err) =>
              \A id \in UUIDs(db) \ Keys(db) : ENABLED InboundCreateOk(r, id)
        /\ pc[r] = "publish" => ENABLED InboundPublishOk(r)

\* The row stored first has its event published second.
C10_Witness ==
    /\ Len(db) = 2
    /\ Len(kafka) = 2
    /\ kafka[1] = Marshal(db[2])
    /\ kafka[2] = Marshal(db[1])
====
